---- MODULE Spec2Model ----
(***************************************************************************)
(* Model of the classical shell of the Shor simulation: the number-theory  *)
(* kernel (shor/classical.py), the phase-to-order recovery (shor/utils.py),*)
(* the order-finding oracle (shor/quantum.py) and the attempt loop of      *)
(* shor_factor (main.py).                                                  *)
(***************************************************************************)
EXTENDS Integers, Sequences, FiniteSets, TLC

VARIABLES
    N,            \* modulus handed to shor_factor / quantum_order_finding
    pc,           \* position in shor_factor / quantum_order_finding
    attempt,      \* loop variable of `for attempt in range(5)` (iterations started)
    a,            \* base of the current attempt
    r,            \* order candidate (loop variable of the brute-force loop, oracle result)
    x,            \* a^(r/2) mod N of the current attempt
    ret,          \* how shor_factor ended: "running", "pair", "None", "ValueError"
    factors,      \* the returned tuple when ret = "pair"
    oracleCalls,  \* number of calls of quantum_order_finding made by shor_factor
    picks,        \* number of random.randrange calls made by shor_factor
    inconclusive, \* number of attempts ended by `continue` or by falling through
    path,         \* branch of quantum_order_finding that produced r
    fn,           \* kernel function applied ("none" before the call)
    args,         \* its arguments
    out           \* its return value

vars == <<N, pc, attempt, a, r, x, ret, factors, oracleCalls, picks,
          inconclusive, path, fn, args, out>>

orchVars == <<N, pc, attempt, a, r, x, ret, factors, oracleCalls, picks,
              inconclusive, path>>
pureVars == <<fn, args, out>>

----------------------------------------------------------------------------
(* Bounds of the model *)

MaxNegN == 4
MaxN == 65
MaxOracleN == 63
MaxArg == 7
MaxExp == 6
MaxMod == 8
MaxPhaseDen == 16
MaxDenBound == 10
MaxPhaseN == 16

----------------------------------------------------------------------------
(* Python values *)

\* Python's None for an integer-or-None result
None == -1

\* n_count=4, default argument of quantum_order_finding
n_count == 4

\* max_denominator=1000, default argument of get_order_from_phase
DefaultMaxDenominator == 1000

\* range(5) of the attempt loop
MaxAttempts == 5

----------------------------------------------------------------------------
(* shor/classical.py *)

RECURSIVE gcd(_, _)
gcd(u, v) == IF v # 0 THEN gcd(v, u % v) ELSE u

RECURSIVE modinvLoop(_, _, _, _)
modinvLoop(t, new_t, rr, new_r) ==
    IF new_r # 0
    THEN LET quotient == rr \div new_r
         IN  modinvLoop(new_t, t - quotient * new_t, new_r, rr - quotient * new_r)
    ELSE <<t, rr>>

\* `if t < 0: t += m` (and the variant that leaves t as the loop left it)
modinvNormalizeNoFix(t, m) == t
modinvNormalize(t, m) == IF t < 0 THEN t + m ELSE t

modinv(u, m) ==
    LET fin == modinvLoop(0, 1, m, u)
        t   == fin[1]
        rr  == fin[2]
    IN  IF rr > 1 THEN None ELSE modinvNormalize(t, m)

RECURSIVE modexpLoop(_, _, _, _)
modexpLoop(result, u, b, m) ==
    IF b > 0
    THEN modexpLoop(IF b % 2 = 1 THEN (result * u) % m ELSE result,
                    (u * u) % m, b \div 2, m)
    ELSE result

modexp(u, b, m) == modexpLoop(1, u % m, b, m)

RECURSIVE isPrimeLoop(_, _)
isPrimeLoop(n, i) ==
    IF i * i <= n
    THEN IF n % i = 0 \/ n % (i + 2) = 0 THEN FALSE ELSE isPrimeLoop(n, i + 6)
    ELSE TRUE

is_prime(n) ==
    IF n <= 1 THEN FALSE
    ELSE IF n <= 3 THEN TRUE
    ELSE IF n % 2 = 0 \/ n % 3 = 0 THEN FALSE
    ELSE isPrimeLoop(n, 5)

----------------------------------------------------------------------------
(* Python builtins used by the code *)

\* pow(base, exp, mod) for exp >= 0, mod >= 1
RECURSIVE PyPow(_, _, _)
PyPow(base, e, m) ==
    IF e = 0 THEN 1 % m ELSE ((base % m) * PyPow(base, e - 1, m)) % m

\* round(num/den) for num >= 0, den >= 1: nearest integer, ties to even
PyRound(num, den) ==
    LET fl == num \div den
        twice == 2 * (num % den)
    IN  IF twice < den THEN fl
        ELSE IF twice > den THEN fl + 1
        ELSE IF fl % 2 = 0 THEN fl ELSE fl + 1

\* int(np.ceil(np.log2(n))) for n >= 1
RECURSIVE CeilLog2From(_, _)
CeilLog2From(n, k) == IF 2 ^ k >= n THEN k ELSE CeilLog2From(n, k + 1)
CeilLog2(n) == CeilLog2From(n, 0)

\* |p1/q1 - n/d| <= |p2/q2 - n/d| on exact fractions (denominators > 0)
Abs(i) == IF i < 0 THEN -i ELSE i
CloserOrEqual(p1, q1, p2, q2, n, d) ==
    Abs(p1 * d - n * q1) * q2 <= Abs(p2 * d - n * q2) * q1

\* Fraction(num, den): lowest terms
Fraction(num, den) ==
    LET g == gcd(num, den) IN <<num \div g, den \div g>>

\* Fraction.limit_denominator(max_denominator) on the fraction num/den
RECURSIVE limitLoop(_, _, _, _, _, _, _)
limitLoop(p0, q0, p1, q1, n, d, maxDen) ==
    LET aa == n \div d
        q2 == q0 + aa * q1
    IN  IF q2 > maxDen
        THEN <<p0, q0, p1, q1>>
        ELSE limitLoop(p1, q1, p0 + aa * p1, q2, d, n - aa * d, maxDen)

limit_denominator(frac, maxDen) ==
    IF frac[2] <= maxDen THEN frac
    ELSE LET fin == limitLoop(0, 1, 1, 0, frac[1], frac[2], maxDen)
             p0 == fin[1]
             q0 == fin[2]
             p1 == fin[3]
             q1 == fin[4]
             k  == (maxDen - q0) \div q1
             bound1 == Fraction(p0 + k * p1, q0 + k * q1)
             bound2 == Fraction(p1, q1)
         IN  IF CloserOrEqual(bound2[1], bound2[2], bound1[1], bound1[2],
                              frac[1], frac[2])
             THEN bound2 ELSE bound1

----------------------------------------------------------------------------
(* shor/utils.py; a phase is the exact fraction pn/pd *)

continued_fraction(pn, pd, max_denominator) ==
    limit_denominator(Fraction(pn, pd), max_denominator)

\* `denom >= 2` (and the variant that also admits denominator 1)
denomAcceptableFrom1(denom) == denom >= 1
denomAcceptable(denom) == denom >= 2

get_order_from_phase(pn, pd, n, max_denominator) ==
    LET denom == continued_fraction(pn, pd, max_denominator)[2]
    IN  IF denomAcceptable(denom) /\ PyPow(PyRound(pn * denom, pd), denom, n) = 1
        THEN denom
        ELSE None

----------------------------------------------------------------------------
(* shor/quantum.py *)

\* modular_exponentiation_gate(a, N, n) raises ValueError: a is not coprime
\* to N, or x -> a^x mod N repeats a value on 0 .. 2^n - 1 (and the variant
\* without either test)
gateNeverRaises(u, m, n) == FALSE
gateRaises(u, m, n) ==
    \/ gcd(u, m) # 1
    \/ \E x1, x2 \in 0..(2 ^ n - 1) : x1 < x2 /\ PyPow(u, x1, m) = PyPow(u, x2, m)

\* `while pow(a, r, N) != 1 and r < N`
bruteForceContinues(u, rr, m) == PyPow(u, rr, m) # 1 /\ rr < m

\* phase = int(measured, 2) / 2^n_count; r = get_order_from_phase(phase, N)
orderFromMeasurement(k, m) ==
    get_order_from_phase(k, 2 ^ n_count, m, DefaultMaxDenominator)

\* Entry of quantum_order_finding(a, N) up to the brute-force loop or, on the
\* circuit branches, up to the return; k is the most frequent measurement
\* outcome reported by the simulator.
QofEntry ==
    /\ pc = "qof"
    /\ \E k \in 0..(2 ^ n_count - 1) :
         IF N < 8
         THEN /\ r' = 1 /\ pc' = "bf_loop" /\ path' = "small"
         ELSE IF N <= 15 /\ CeilLog2(N) <= 4
         THEN IF gateRaises(a, N, CeilLog2(N))
              THEN /\ r' = 1 /\ pc' = "bf_loop" /\ path' = "fallback"
              ELSE /\ r' = orderFromMeasurement(k, N)
                   /\ pc' = "qof_ret" /\ path' = "unitary"
         ELSE IF N <= 60
         THEN /\ r' = orderFromMeasurement(k, N)
              /\ pc' = "qof_ret" /\ path' = "arithmetic"
         ELSE /\ r' = 1 /\ pc' = "bf_loop" /\ path' = "large"
    /\ UNCHANGED <<N, attempt, a, x, ret, factors, oracleCalls, picks,
                   inconclusive, pureVars>>

BruteForceStep ==
    /\ pc = "bf_loop"
    /\ bruteForceContinues(a, r, N)
    /\ r' = r + 1
    /\ UNCHANGED <<N, pc, attempt, a, x, ret, factors, oracleCalls, picks,
                   inconclusive, path, pureVars>>

BruteForceReturn ==
    /\ pc = "bf_loop"
    /\ ~bruteForceContinues(a, r, N)
    /\ r' = IF r = N THEN None ELSE r
    /\ pc' = "qof_ret"
    /\ UNCHANGED <<N, attempt, a, x, ret, factors, oracleCalls, picks,
                   inconclusive, path, pureVars>>

OracleNext == QofEntry \/ BruteForceStep \/ BruteForceReturn

\* quantum_order_finding(a, N) called directly on 2 <= a <= N - 1
InitOracle ==
    /\ N \in 3..MaxOracleN
    /\ a \in 2..(N - 1)
    /\ pc = "qof"
    /\ r = None /\ path = "none"
    /\ attempt = 0 /\ x = 0 /\ ret = "running" /\ factors = <<0, 0>>
    /\ oracleCalls = 0 /\ picks = 0 /\ inconclusive = 0
    /\ fn = "none" /\ args = <<>> /\ out = None

SpecOracle == InitOracle /\ [][OracleNext]_vars

----------------------------------------------------------------------------
(* main.py: shor_factor(N) *)

\* `for attempt in range(5)` has no iteration left (and the variant that
\* allows one more)
rangeExhaustedLate(att) == att > MaxAttempts
rangeExhausted(att) == att >= MaxAttempts

\* `if d > 1` after d = gcd(a, N) (and the variant with the threshold 3)
gcdShortcutAbove3(d) == d > 3
gcdShortcut(d) == d > 1

Return(kind, pair) ==
    /\ pc' = "done"
    /\ ret' = kind
    /\ factors' = pair

ReturnEven ==
    /\ pc = "start"
    /\ N % 2 = 0
    /\ Return("pair", <<2, N \div 2>>)
    /\ UNCHANGED <<N, attempt, a, r, x, oracleCalls, picks, inconclusive, path,
                   pureVars>>

ReturnPrime ==
    /\ pc = "start"
    /\ N % 2 # 0
    /\ is_prime(N)
    /\ Return("None", factors)
    /\ UNCHANGED <<N, attempt, a, r, x, oracleCalls, picks, inconclusive, path,
                   pureVars>>

EnterLoop ==
    /\ pc = "start"
    /\ N % 2 # 0
    /\ ~is_prime(N)
    /\ pc' = "loop"
    /\ UNCHANGED <<N, attempt, a, r, x, ret, factors, oracleCalls, picks,
                   inconclusive, path, pureVars>>

\* a = random.randrange(2, N)
PickBase ==
    /\ pc = "loop"
    /\ ~rangeExhausted(attempt)
    /\ N > 2
    /\ \E b \in 2..(N - 1) : a' = b
    /\ attempt' = attempt + 1
    /\ picks' = picks + 1
    /\ pc' = "gcd"
    /\ UNCHANGED <<N, r, x, ret, factors, oracleCalls, inconclusive, path,
                   pureVars>>

\* random.randrange(2, N) raises ValueError on the empty range
RandrangeRaises ==
    /\ pc = "loop"
    /\ ~rangeExhausted(attempt)
    /\ N <= 2
    /\ attempt' = attempt + 1
    /\ Return("ValueError", factors)
    /\ UNCHANGED <<N, a, r, x, oracleCalls, picks, inconclusive, path, pureVars>>

ReturnExhausted ==
    /\ pc = "loop"
    /\ rangeExhausted(attempt)
    /\ Return("None", factors)
    /\ UNCHANGED <<N, attempt, a, r, x, oracleCalls, picks, inconclusive, path,
                   pureVars>>

ReturnGcd ==
    /\ pc = "gcd"
    /\ gcdShortcut(gcd(a, N))
    /\ Return("pair", <<gcd(a, N), N \div gcd(a, N)>>)
    /\ UNCHANGED <<N, attempt, a, r, x, oracleCalls, picks, inconclusive, path,
                   pureVars>>

CallOracle ==
    /\ pc = "gcd"
    /\ ~gcdShortcut(gcd(a, N))
    /\ oracleCalls' = oracleCalls + 1
    /\ pc' = "qof"
    /\ UNCHANGED <<N, attempt, a, r, x, ret, factors, picks, inconclusive, path,
                   pureVars>>

Continue ==
    /\ inconclusive' = inconclusive + 1
    /\ pc' = "loop"

RetryOrder ==
    /\ pc = "qof_ret"
    /\ (r = None \/ r % 2 # 0)
    /\ Continue
    /\ UNCHANGED <<N, attempt, a, r, x, ret, factors, oracleCalls, picks, path,
                   pureVars>>

AcceptOrder ==
    /\ pc = "qof_ret"
    /\ ~(r = None \/ r % 2 # 0)
    /\ x' = PyPow(a, r \div 2, N)
    /\ pc' = "root"
    /\ UNCHANGED <<N, attempt, a, r, ret, factors, oracleCalls, picks,
                   inconclusive, path, pureVars>>

RetryTrivialRoot ==
    /\ pc = "root"
    /\ (x = N - 1 \/ x = 1)
    /\ Continue
    /\ UNCHANGED <<N, attempt, a, r, x, ret, factors, oracleCalls, picks, path,
                   pureVars>>

IsProper(f) == 1 < f /\ f < N

ReturnFactor1 ==
    /\ pc = "root"
    /\ ~(x = N - 1 \/ x = 1)
    /\ IsProper(gcd(x + 1, N))
    /\ Return("pair", <<gcd(x + 1, N), N \div gcd(x + 1, N)>>)
    /\ UNCHANGED <<N, attempt, a, r, x, oracleCalls, picks, inconclusive, path,
                   pureVars>>

ReturnFactor2 ==
    /\ pc = "root"
    /\ ~(x = N - 1 \/ x = 1)
    /\ ~IsProper(gcd(x + 1, N))
    /\ IsProper(gcd(x - 1, N))
    /\ Return("pair", <<gcd(x - 1, N), N \div gcd(x - 1, N)>>)
    /\ UNCHANGED <<N, attempt, a, r, x, oracleCalls, picks, inconclusive, path,
                   pureVars>>

\* neither candidate is a proper factor: the loop body ends
FallThrough ==
    /\ pc = "root"
    /\ ~(x = N - 1 \/ x = 1)
    /\ ~IsProper(gcd(x + 1, N))
    /\ ~IsProper(gcd(x - 1, N))
    /\ Continue
    /\ UNCHANGED <<N, attempt, a, r, x, ret, factors, oracleCalls, picks, path,
                   pureVars>>

Init ==
    /\ N \in (-MaxNegN)..MaxN
    /\ pc = "start"
    /\ attempt = 0 /\ a = 0 /\ r = None /\ x = 0
    /\ ret = "running" /\ factors = <<0, 0>>
    /\ oracleCalls = 0 /\ picks = 0 /\ inconclusive = 0 /\ path = "none"
    /\ fn = "none" /\ args = <<>> /\ out = None

Next ==
    \/ ReturnEven
    \/ ReturnPrime
    \/ EnterLoop
    \/ PickBase
    \/ RandrangeRaises
    \/ ReturnExhausted
    \/ ReturnGcd
    \/ CallOracle
    \/ QofEntry
    \/ BruteForceStep
    \/ BruteForceReturn
    \/ RetryOrder
    \/ AcceptOrder
    \/ RetryTrivialRoot
    \/ ReturnFactor1
    \/ ReturnFactor2
    \/ FallThrough

Spec == Init /\ [][Next]_vars

\* every attempt runs to completion before the next one starts (synchronous,
\* single-threaded call)
FairSpec == Spec /\ WF_vars(Next)

----------------------------------------------------------------------------
(* Reference notions the properties are stated against *)

Divides(d, n) == n % d = 0

Max(i, j) == IF i >= j THEN i ELSE j

\* greatest common divisor of u >= 0 and v >= 0, not both 0, by definition
GcdRef(u, v) ==
    CHOOSE d \in 1..Max(u, v) :
        /\ Divides(d, u) /\ Divides(d, v)
        /\ \A e \in (d + 1)..Max(u, v) : ~(Divides(e, u) /\ Divides(e, v))

IsPrimeRef(n) == n >= 2 /\ \A d \in 2..(n - 1) : ~Divides(d, n)

IsOddComposite(n) == n >= 2 /\ n % 2 = 1 /\ ~IsPrimeRef(n)

\* base ** e as an integer
RECURSIVE Power(_, _)
Power(base, e) == IF e = 0 THEN 1 ELSE base * Power(base, e - 1)

\* the multiplicative order of u modulo n (u coprime to n, n >= 2)
OrderRef(u, n) ==
    CHOOSE k \in 1..n :
        /\ PyPow(u, k, n) = 1
        /\ \A j \in 1..(k - 1) : PyPow(u, j, n) # 1

\* denominator of the fraction closest to pn/pd among the fractions with
\* denominator at most maxDen (the smallest such denominator on a tie)
NearCandidates(pn, pd, maxDen) ==
    { <<p, q>> \in (0..maxDen) \X (1..maxDen) :
        LET fl == (pn * q) \div pd IN p = fl \/ p = fl + 1 }

BestDenRef(pn, pd, maxDen) ==
    LET cands == NearCandidates(pn, pd, maxDen)
        best == { c \in cands :
                    \A o \in cands : CloserOrEqual(c[1], c[2], o[1], o[2], pn, pd) }
    IN  CHOOSE q \in { c[2] : c \in best } : \A c \in best : q <= c[2]

----------------------------------------------------------------------------
(* Applications of the kernel and recovery functions to bounded inputs *)

IdleOrchestrator ==
    /\ N = 0 /\ pc = "idle" /\ attempt = 0 /\ a = 0 /\ r = None /\ x = 0
    /\ ret = "running" /\ factors = <<0, 0>> /\ oracleCalls = 0 /\ picks = 0
    /\ inconclusive = 0 /\ path = "none"

InitModexp ==
    /\ IdleOrchestrator
    /\ fn = "none" /\ out = None
    /\ args \in (0..MaxArg) \X (0..MaxExp) \X (1..MaxMod)

CallModexp ==
    /\ fn = "none"
    /\ fn' = "modexp"
    /\ out' = modexp(args[1], args[2], args[3])
    /\ UNCHANGED <<args, orchVars>>

SpecModexp == InitModexp /\ [][CallModexp]_vars

InitModinv ==
    /\ IdleOrchestrator
    /\ fn = "none" /\ out = None
    /\ args \in (0..(2 * MaxMod)) \X (1..MaxMod)

CallModinv ==
    /\ fn = "none"
    /\ fn' = "modinv"
    /\ out' = modinv(args[1], args[2])
    /\ UNCHANGED <<args, orchVars>>

SpecModinv == InitModinv /\ [][CallModinv]_vars

\* args = <<pn, pd, N, max_denominator>> with phase pn/pd in [0, 1)
InitPhase ==
    /\ IdleOrchestrator
    /\ fn = "none" /\ out = None
    /\ args \in { t \in (0..MaxPhaseDen) \X (1..MaxPhaseDen) \X (1..MaxPhaseN)
                        \X (1..MaxDenBound) : t[1] < t[2] }

CallGetOrderFromPhase ==
    /\ fn = "none"
    /\ fn' = "get_order_from_phase"
    /\ out' = get_order_from_phase(args[1], args[2], args[3], args[4])
    /\ UNCHANGED <<args, orchVars>>

SpecPhase == InitPhase /\ [][CallGetOrderFromPhase]_vars

----------------------------------------------------------------------------
(* Properties of the kernel and recovery functions *)

C8_ModexpIsPower ==
    fn = "modexp" => out = Power(args[1], args[2]) % args[3]

----------------------------------------------------------------------------
(* Properties of shor_factor and quantum_order_finding *)

\* C1: whenever shor_factor(N), N >= 2, returns a pair (f, g), f * g = N
\* and 1 < f < N, on each of the three return paths.
C1_ReturnedPairIsProper ==
    (ret = "pair" /\ N >= 2) =>
        /\ factors[1] * factors[2] = N
        /\ 1 < factors[1] /\ factors[1] < N

\* C2: an order r accepted by shor_factor (x = a^(r/2) mod N is computed)
\* is even and satisfies a^r mod N = 1.
C2_AcceptedOrderIsOrder ==
    pc = "root" => (r % 2 = 0 /\ PyPow(a, r, N) = 1)

\* C3: for prime N, shor_factor picks no base, never calls the oracle and
\* returns None.
C3_PrimeIsReported ==
    (pc # "idle" /\ IsPrimeRef(N)) =>
        /\ picks = 0 /\ oracleCalls = 0
        /\ ret # "pair" /\ ret # "ValueError"
        /\ pc = "done" => ret = "None"

\* C4: for N < 2, shor_factor picks no base, never calls the oracle, returns
\* no factor pair and does not raise.
C4_InvalidInputIsRejected ==
    (pc # "idle" /\ N < 2) =>
        /\ picks = 0 /\ oracleCalls = 0
        /\ ret # "pair" /\ ret # "ValueError"

InAttempt == pc \in {"gcd", "qof", "bf_loop", "qof_ret", "root"}

C5_Bounded ==
    IsOddComposite(N) =>
        /\ attempt <= 5 /\ oracleCalls <= 5 /\ oracleCalls <= attempt
        /\ picks = attempt
        /\ ret # "ValueError"
        /\ pc = "loop" => inconclusive = attempt
        /\ InAttempt => inconclusive = attempt - 1
        /\ (pc = "done" /\ ret = "None") =>
               (attempt = 5 /\ inconclusive = 5 /\ oracleCalls = 5)
        /\ pc = "bf_loop" => (1 <= r /\ r <= N)

\* C5: shor_factor on odd composite N ends after at most 5 attempts and 5
\* oracle calls; every inconclusive attempt uses up one attempt and is
\* followed by a fresh pick; None is returned only after 5 inconclusive
\* attempts; the brute-force loop ends with r <= N.
C5_TerminatesWithin5Attempts ==
    /\ []C5_Bounded
    /\ [][(IsOddComposite(N) /\ inconclusive' = inconclusive + 1)
            => (pc' = "loop" /\ attempt' = attempt /\ attempt = inconclusive')]_vars
    /\ <>(pc = "done")

\* all five attempts on N = 21 were inconclusive and None was returned
C5_Witness ==
    /\ N = 21 /\ pc = "done" /\ ret = "None"
    /\ attempt = 5 /\ inconclusive = 5

BruteForcePath == path \in {"small", "fallback", "large"}

\* C6: for N <= 15 and N > 60 and 2 <= a <= N - 1, quantum_order_finding
\* returns through the brute-force loop: the multiplicative order of a mod N
\* when a is coprime to N (4 for a = 2, N = 15), None otherwise.
C6_BruteForceGivesTrueOrder ==
    (pc = "qof_ret" /\ (N <= 15 \/ N > 60)) =>
        /\ BruteForcePath
        /\ (N >= 8 /\ N <= 15) => path = "fallback"
        /\ GcdRef(a, N) = 1 => r = OrderRef(a, N)
        /\ GcdRef(a, N) # 1 => r = None
        /\ (a = 2 /\ N = 15) => r = 4

\* quantum_order_finding(2, 15) returned 4 after the gate refused the map
C6_Witness ==
    /\ pc = "qof_ret" /\ a = 2 /\ N = 15 /\ path = "fallback" /\ r = 4
    /\ attempt = 0

\* C10: shor_factor calls the oracle only with 2 <= a <= N - 1 coprime to
\* N; a base with d = gcd(a, N) > 1 ends the call at once with (d, N / d)
\* and no oracle call, so the gate never fails for a non-coprime base.
C10_OracleOnlyOnCoprimeBase ==
    /\ [](InAttempt /\ pc # "gcd" => (2 <= a /\ a <= N - 1 /\ GcdRef(a, N) = 1))
    /\ [][(pc = "gcd" /\ GcdRef(a, N) > 1)
            => /\ pc' = "done" /\ ret' = "pair"
               /\ factors' = <<GcdRef(a, N), N \div GcdRef(a, N)>>
               /\ oracleCalls' = oracleCalls]_vars

\* the oracle is running for shor_factor(15) on the coprime base 7
C10_Witness ==
    /\ N = 15 /\ a = 7 /\ pc = "qof" /\ oracleCalls = 1

====
